---- MODULE Spec2Model ----
(***************************************************************************)
(* Model of the SecureEval project workflow: the Express routes of         *)
(* server/routes/projects.js (submit, evaluate, verify-publish, delete and *)
(* the listings) over the MongoDB collections `projects` and               *)
(* `evaluations`, the RBAC middleware, the reviewers' key store and the    *)
(* admin dashboard's client-side signature verification.                   *)
(*                                                                         *)
(* Every MongoDB call is atomic; a handler that awaits several calls is a  *)
(* sequence of steps that other requests may interleave with.              *)
(*                                                                         *)
(* RouterSpec is the router alone, DashboardSpec the clients with the      *)
(* routes they use, Spec both together; AuthSpec is the auth routes with   *)
(* project routes behind the authenticate middleware.  AccessSpec,         *)
(* PayloadSpec, UnsealSpec and SealSpec apply the client's access          *)
(* decision, the signature re-check, the reviewer's decrypt-and-download   *)
(* and the student's submission form to every input of bounded sets.       *)
(***************************************************************************)
EXTENDS Integers, Sequences, FiniteSets, Bags, TLC

\* ------------------------------------------------------------------ bounds
MaxProjects == 1
MaxEvals == 2
MaxInflight == 2
MaxKeys == 1
MaxOtps == 2

\* -------------------------------------------------------------- principals
Students == {"s1", "s2"}
Reviewers == {"r1", "r2"}
Admins == {"a1"}
Users == Students \cup Reviewers \cup Admins

roleOf(u) ==
    IF u \in Students THEN "student"
    ELSE IF u \in Reviewers THEN "reviewer"
    ELSE "admin"

\* --------------------------------------------------- RBAC (accessControl.js)
RBAC_MATRIX ==
    [student |->
        [project_file |-> {"create", "read"},
         evaluation_report |-> {},
         final_result |-> {"read"}],
     reviewer |->
        [project_file |-> {"read"},
         evaluation_report |-> {"create", "read", "sign"},
         final_result |-> {}],
     admin |->
        [project_file |-> {"read", "delete"},
         evaluation_report |-> {"read", "verify"},
         final_result |-> {"create", "update", "read", "delete"}]]

hasPermission(role, resource, action) == action \in RBAC_MATRIX[role][resource]

\* checkPermission(resource, action): the line the middleware logs for its
\* decision, console.warn on a denial and console.log on a grant
checkPermission(role, resource, action) ==
    IF hasPermission(role, resource, action) THEN "Access Granted" ELSE "Access Denied"

\* ------------------------------------------------------------------- values
\* Strings that the code concatenates are sequences of characters.
Empty == << >>
ProjIds == 1..MaxProjects
EvalIds == 1..MaxEvals
NullId == 0
MalformedId == -1
NullReviewer == "null"

NoDoc == [absent |-> TRUE]
OtpIds == 1..MaxOtps
NoOtpLog == [email |-> "", tokens |-> 0, loggedOut |-> FALSE]

\* `${id}:${grade}:${feedback}`
canonicalPayload(id, grade, feedback) ==
    <<id>> \o <<":">> \o grade \o <<":">> \o feedback

\* RSA-PSS signature: verifiable only with the public half of the signing key
\* and only over the signed bytes.
signData(data, privateKey) == [key |-> privateKey, data |-> data]

verifySignature(data, signature, publicKey) ==
    /\ publicKey # 0
    /\ signature.key = publicKey
    /\ signature.data = data

NoSignature == [key |-> 0, data |-> Empty]
ForgedSignature == [key |-> 0, data |-> <<"?">>]

\* -------------------------------------------------------------------- state
VARIABLES
    projects,        \* MongoDB collection `projects`: _id -> document
    evaluations,     \* MongoDB collection `evaluations`: _id -> document
    nextProject,     \* next ObjectId that insertOne gives a project
    nextEval,        \* next ObjectId that insertOne gives an evaluation
    inflight,        \* bag of handlers suspended at an await
    resp,            \* the HTTP response the last step sent (NoResp: none)
    signingKeys,     \* each principal's private signing key (0: none loaded)
    keyDirectory,    \* localStorage public_key_directory: principal -> signPub
    nextKey,         \* next fresh key pair
    pendingView,     \* AdminDashboard state `evaluations` (last load)
    toast,           \* the notification the last step showed ("none": none)
    audit,           \* the access-decision line the last step logged
    listing,         \* the body of the last step's answer (listings, auth routes)
    ownStore,        \* localStorage of each reviewer's own browser: signPub
    access,          \* a checkAccess call: its arguments and its decision
    tamper,          \* a signed evaluation, what is stored, and the re-check
    unsealing,       \* a stored submission, the reader's keys, the unseal outcome
    sealing,         \* a submission form, the key directory, the seal outcome
    published,       \* key material the client last sent out of the browser
    users,           \* MongoDB collection `users`: email -> document
    otps,            \* MongoDB collection `otps`: _id -> document
    sessions,        \* MongoDB collection `sessions`: the tokens it holds
    nextOtp,         \* next ObjectId that insertOne gives an OTP record
    otpLog           \* per OTP record: whose it was, the tokens answered to it

vars == <<projects, evaluations, nextProject, nextEval, inflight, resp,
          signingKeys, keyDirectory, nextKey, pendingView, toast,
          audit, listing, ownStore, access, tamper, unsealing, sealing,
          published, users, otps, sessions, nextOtp, otpLog>>

dbVars == <<projects, evaluations, nextProject, nextEval>>
keyVars == <<signingKeys, keyDirectory, ownStore, nextKey, published>>
probeVars == <<access, tamper, unsealing, sealing>>
authVars == <<users, otps, sessions, nextOtp, otpLog>>
programVars == <<dbVars, inflight, resp, keyVars, pendingView, toast, audit,
                 listing, authVars>>

NoAudit == "none"
NoListing == [route |-> "none"]
NoAccess == [checked |-> FALSE]
NoTamper == [checked |-> FALSE]
NoUnsealing == [checked |-> FALSE]
NoSealing == [checked |-> FALSE]
NoPublished == [toServer |-> {}, toDirectory |-> {}]

NoResp == 0

\* res.status(code).json(...): the model keeps the status code
Response(route, u, id, code) == code

ProgramInit ==
    /\ projects = [p \in ProjIds |-> NoDoc]
    /\ evaluations = [e \in EvalIds |-> NoDoc]
    /\ nextProject = 1
    /\ nextEval = 1
    /\ inflight = EmptyBag
    /\ resp = NoResp
    /\ signingKeys = [u \in Users |-> 0]
    /\ keyDirectory = [u \in Users |-> 0]
    /\ nextKey = 1
    /\ pendingView = [p \in ProjIds |-> NoDoc]
    /\ toast = "none"
    /\ audit = NoAudit
    /\ listing = NoListing
    /\ ownStore = [u \in Users |-> 0]
    /\ published = NoPublished
    /\ users = [u \in Users |-> NoDoc]
    /\ otps = [o \in OtpIds |-> NoDoc]
    /\ sessions = {}
    /\ nextOtp = 1
    /\ otpLog = [o \in OtpIds |-> NoOtpLog]

Init ==
    /\ ProgramInit
    /\ access = NoAccess
    /\ tamper = NoTamper
    /\ unsealing = NoUnsealing
    /\ sealing = NoSealing

\* findOne({ _id }) on a collection
findOne(collection, ids, id) == IF id \in ids THEN collection[id] ELSE NoDoc

Suspend(r) == inflight' = inflight (+) SetToBag({r})
Resume(r, r2) == inflight' = (inflight (-) SetToBag({r})) (+) SetToBag({r2})
Finish(r) == inflight' = inflight (-) SetToBag({r})

\* ------------------------------------------------------- key store (client)
\* localStorage belongs to a browser.  "shared" is the browser the admin
\* dashboard runs in, whose public_key_directory is keyDirectory; "own" is a
\* reviewer's own browser, whose localStorage is ownStore.  In either, the
\* key-pair items and the directory entry of a principal are written together
\* and never removed, so one entry stands for both.
Browsers == {"shared", "own"}

localStorage(b) == IF b = "shared" THEN keyDirectory ELSE ownStore

\* CryptoService.exportPublicKey / exportPrivateKey: the exported text of one
\* half of key pair k.  A principal's encryption pair and signing pair are
\* generated together and share the number k.
exportPublicKey(k, use) == [pair |-> k, use |-> use, half |-> "public"]
exportPrivateKey(k, use) == [pair |-> k, use |-> use, half |-> "private"]

\* ApiService.updatePublicKeys: the key fields of the body it POSTs to
\* /api/auth/update-keys, which stores exactly these two fields.
updatePublicKeys(encPub, signPub) == {encPub, signPub}

generateAndStoreKeysLeaky(b, u) ==
    /\ nextKey <= MaxKeys
    /\ signingKeys' = [signingKeys EXCEPT ![u] = nextKey]
    /\ keyDirectory' = IF b = "shared" THEN [keyDirectory EXCEPT ![u] = nextKey]
                       ELSE keyDirectory
    /\ ownStore' = IF b = "shared" THEN ownStore
                   ELSE [ownStore EXCEPT ![u] = nextKey]
    /\ published' =
           [toServer |-> updatePublicKeys(exportPublicKey(nextKey, "encrypt"),
                                          exportPrivateKey(nextKey, "sign")),
            toDirectory |-> {exportPublicKey(nextKey, "encrypt"),
                             exportPublicKey(nextKey, "sign")}]
    /\ nextKey' = nextKey + 1

\* SecurityContext.generateAndStoreKeys: a fresh encryption pair and a fresh
\* signing pair; the private halves become the session's keys, all four
\* exported halves are written to the localStorage of the browser it runs in,
\* and the two public halves are uploaded and entered in the directory.
generateAndStoreKeys(b, u) ==
    /\ nextKey <= MaxKeys
    /\ signingKeys' = [signingKeys EXCEPT ![u] = nextKey]
    /\ keyDirectory' = IF b = "shared" THEN [keyDirectory EXCEPT ![u] = nextKey]
                       ELSE keyDirectory
    /\ ownStore' = IF b = "shared" THEN ownStore
                   ELSE [ownStore EXCEPT ![u] = nextKey]
    /\ published' =
           [toServer |-> updatePublicKeys(exportPublicKey(nextKey, "encrypt"),
                                          exportPublicKey(nextKey, "sign")),
            toDirectory |-> {exportPublicKey(nextKey, "encrypt"),
                             exportPublicKey(nextKey, "sign")}]
    /\ nextKey' = nextKey + 1

\* SecurityContext.loadKeys: the stored pairs if the browser has them, whose
\* public halves it uploads again; fresh pairs otherwise.
loadKeys(b, u) ==
    IF localStorage(b)[u] # 0
    THEN /\ signingKeys' = [signingKeys EXCEPT ![u] = localStorage(b)[u]]
         /\ published' =
                [published EXCEPT
                    !.toServer =
                        updatePublicKeys(
                            exportPublicKey(localStorage(b)[u], "encrypt"),
                            exportPublicKey(localStorage(b)[u], "sign"))]
         /\ UNCHANGED <<keyDirectory, ownStore, nextKey>>
    ELSE generateAndStoreKeys(b, u)

\* SecurityContext.mockLogin, called by the login page after the server has
\* authenticated the user.  Its closing test of the directory entry finds the
\* entry that loadKeys has loaded from or written.
mockLogin(b, u) ==
    /\ signingKeys[u] = 0
    /\ loadKeys(b, u)
    /\ resp' = NoResp /\ toast' = "none"
    /\ audit' = NoAudit /\ listing' = NoListing
    /\ UNCHANGED <<dbVars, inflight, pendingView, probeVars, authVars>>

\* SecurityContext.logout: the session's keys are dropped, localStorage's
\* key items and directory stay.
logout(u) ==
    /\ signingKeys[u] # 0
    /\ signingKeys' = [signingKeys EXCEPT ![u] = 0]
    /\ resp' = NoResp /\ toast' = "none"
    /\ audit' = NoAudit /\ listing' = NoListing
    /\ UNCHANGED <<dbVars, inflight, pendingView, keyDirectory, ownStore, nextKey,
                 published, probeVars, authVars>>

\* ------------------------------------------------------------ POST /submit
CompleteBody ==
    [title |-> <<"T">>, encryptedData |-> <<"C">>, encryptedKey |-> <<"K">>,
     iv |-> <<"I">>, fileHash |-> <<"H">>, reviewerId |-> "", studentId |-> ""]

\* The student who submits and the reviewer a submission names.  The code
\* treats all students alike and all reviewers alike, so fixing which of them
\* these are loses no behaviour; s2 and r2 are the other student and the
\* other reviewer, who send every request except a well-formed submit.
Submitter == "s1"
ChosenReviewer == "r1"

\* Request bodies: complete ones with and without a reviewer, one that names
\* another student as its owner, and one body for each required field left out.
SubmitBodies(u) ==
    IF u # Submitter THEN {[CompleteBody EXCEPT !.title = Empty]}
    ELSE
    {[CompleteBody EXCEPT !.reviewerId = r] : r \in {ChosenReviewer, ""}}
    \cup {[CompleteBody EXCEPT !.studentId = s] : s \in Students \ {u}}
    \cup {[CompleteBody EXCEPT !.title = Empty],
          [CompleteBody EXCEPT !.encryptedData = Empty],
          [CompleteBody EXCEPT !.encryptedKey = Empty],
          [CompleteBody EXCEPT !.iv = Empty],
          [CompleteBody EXCEPT !.fileHash = Empty]}

Submit(u, body) ==
    /\ UNCHANGED <<evaluations, nextEval, inflight, keyVars, probeVars, authVars, pendingView>>
    /\ toast' = "none" /\ listing' = NoListing
    /\ audit' = checkPermission(roleOf(u), "project_file", "create")
    /\ IF ~hasPermission(roleOf(u), "project_file", "create")
       THEN /\ resp' = Response("submit", u, NullId, 403)
            /\ UNCHANGED <<projects, nextProject>>
       ELSE IF \/ body.title = Empty \/ body.encryptedData = Empty
               \/ body.encryptedKey = Empty \/ body.iv = Empty \/ body.fileHash = Empty
       THEN /\ resp' = Response("submit", u, NullId, 400)
            /\ UNCHANGED <<projects, nextProject>>
       ELSE /\ nextProject <= MaxProjects
            /\ projects' = [projects EXCEPT ![nextProject] =
                   [studentId |-> u,
                    title |-> body.title,
                    encryptedData |-> body.encryptedData,
                    encryptedKey |-> body.encryptedKey,
                    iv |-> body.iv,
                    fileHash |-> body.fileHash,
                    reviewerId |-> IF body.reviewerId = "" THEN NullReviewer
                                   ELSE body.reviewerId,
                    status |-> "pending",
                    evaluationId |-> NullId,
                    grade |-> Empty,
                    verified |-> FALSE]]
            /\ nextProject' = nextProject + 1
            /\ resp' = Response("submit", u, nextProject, 201)

\* ---------------------------------------------------------- POST /evaluate
UndefinedScore == -1
IdInputs == ProjIds \cup {NullId, MalformedId}

\* score.toString()
toString(score) == <<ToString(score)>>

\* ReviewerDashboard.handleSubmitEvaluation: the body a reviewer's client
\* sends, signed with the signing key loaded in that reviewer's session.  Key
\* 0 is a key held by neither browser's localStorage.
signedBody(u, id, grade, feedback) ==
    [submissionId |-> id, score |-> 0, grading |-> grade, feedback |-> feedback,
     signature |-> signData(canonicalPayload(id, grade, feedback), signingKeys[u])]

\* A body sent without the dashboard: no grading, and signature bytes that
\* verify under no key.
unsignedBody(id) ==
    [submissionId |-> id, score |-> 0, grading |-> Empty, feedback |-> <<"G">>,
     signature |-> ForgedSignature]

\* Request bodies.  A caller the role check stops sends one body.  Every
\* reviewer sends a signed body for each project; the chosen reviewer also
\* sends an unsigned one and one for each way validation or the id
\* conversion fails.
EvaluateBodies(u) ==
    LET any == unsignedBody(1)
    IN  IF ~hasPermission(roleOf(u), "evaluation_report", "create") THEN {any}
        ELSE IF u # ChosenReviewer
        THEN {signedBody(u, id, <<"A">>, <<"G">>) : id \in ProjIds}
        ELSE
        {signedBody(u, id, <<"A">>, <<"G">>) : id \in ProjIds}
        \cup {unsignedBody(id) : id \in ProjIds}
        \cup {[any EXCEPT !.submissionId = NullId],
              [any EXCEPT !.submissionId = MalformedId],
              [any EXCEPT !.score = UndefinedScore],
              [any EXCEPT !.feedback = Empty],
              [any EXCEPT !.signature = NoSignature]}

\* Middleware, validation and the first await: projectsCollection.findOne.
EvaluateBegin(u, body) ==
    /\ UNCHANGED <<dbVars, keyVars, probeVars, authVars, pendingView>>
    /\ toast' = "none" /\ listing' = NoListing
    /\ audit' = checkPermission(roleOf(u), "evaluation_report", "create")
    /\ IF ~hasPermission(roleOf(u), "evaluation_report", "create")
       THEN resp' = Response("evaluate", u, body.submissionId, 403) /\ UNCHANGED inflight
       ELSE IF \/ body.submissionId = NullId \/ body.score = UndefinedScore
               \/ body.feedback = Empty \/ body.signature = NoSignature
       THEN resp' = Response("evaluate", u, body.submissionId, 400) /\ UNCHANGED inflight
       ELSE IF body.submissionId = MalformedId
       THEN resp' = Response("evaluate", u, body.submissionId, 500) /\ UNCHANGED inflight
       ELSE IF findOne(projects, ProjIds, body.submissionId) = NoDoc
       THEN resp' = Response("evaluate", u, body.submissionId, 404) /\ UNCHANGED inflight
       ELSE /\ BagCardinality(inflight) < MaxInflight
            /\ Suspend([kind |-> "evaluate", pc |-> "insertOne", user |-> u,
                        id |-> body.submissionId, score |-> body.score,
                        grading |-> body.grading, feedback |-> body.feedback,
                        signature |-> body.signature, evaluationId |-> NullId])
            /\ resp' = NoResp

\* Second await: evaluationsCollection.insertOne(evaluation).
EvaluateInsert(r) ==
    /\ r.kind = "evaluate" /\ r.pc = "insertOne"
    /\ nextEval <= MaxEvals
    /\ evaluations' = [evaluations EXCEPT ![nextEval] =
           [submissionId |-> r.id,
            evaluatorId |-> r.user,
            score |-> r.score,
            grading |-> r.grading,
            feedback |-> r.feedback,
            signature |-> r.signature]]
    /\ nextEval' = nextEval + 1
    /\ Resume(r, [r EXCEPT !.pc = "updateOne", !.evaluationId = nextEval,
                            !.feedback = Empty, !.signature = NoSignature])
    /\ resp' = NoResp
    /\ UNCHANGED <<projects, nextProject, keyVars, probeVars, authVars, pendingView>>
    /\ toast' = "none" /\ listing' = NoListing /\ audit' = NoAudit

\* $set of the status update that follows the insert
evaluatedProjectResealed(project, r) ==
    [project EXCEPT !.status = "evaluated",
                    !.evaluationId = r.evaluationId,
                    !.grade = IF r.grading # Empty THEN r.grading ELSE toString(r.score),
                    !.fileHash = Empty]

evaluatedProject(project, r) ==
    [project EXCEPT !.status = "evaluated",
                    !.evaluationId = r.evaluationId,
                    !.grade = IF r.grading # Empty THEN r.grading ELSE toString(r.score)]

\* Third await: projectsCollection.updateOne, then the 201 response.
EvaluateUpdate(r) ==
    /\ r.kind = "evaluate" /\ r.pc = "updateOne"
    /\ projects' = IF projects[r.id] = NoDoc THEN projects
                   ELSE [projects EXCEPT ![r.id] = evaluatedProject(@, r)]
    /\ Finish(r)
    /\ resp' = Response("evaluate", r.user, r.id, 201)
    /\ UNCHANGED <<evaluations, nextProject, nextEval, keyVars, probeVars, authVars, pendingView>>
    /\ toast' = "none" /\ listing' = NoListing /\ audit' = NoAudit

\* ----------------------------------------------------- POST /verify-publish
\* Ids a caller sends: any for an admin, one for a caller the role check stops
VerifyPublishIds(u) == IF roleOf(u) = "admin" THEN IdInputs ELSE {1}

\* A variant that answers 404 when the update modified nothing
verifyPublishCodeIfModified(u, projectId) ==
    IF roleOf(u) # "admin" THEN 403
    ELSE IF projectId = NullId THEN 400
    ELSE IF projectId = MalformedId THEN 500
    ELSE IF findOne(projects, ProjIds, projectId) = NoDoc THEN 404
    ELSE IF projects[projectId].verified /\ projects[projectId].status = "published" THEN 404
    ELSE 200

verifyPublishCode(u, projectId) ==
    IF roleOf(u) # "admin" THEN 403
    ELSE IF projectId = NullId THEN 400
    ELSE IF projectId = MalformedId THEN 500
    ELSE IF findOne(projects, ProjIds, projectId) = NoDoc THEN 404
    ELSE 200

\* updateOne({ _id }, { $set: { verified: true, status: 'published' } })
verifyPublishUpdate(u, projectId) ==
    IF verifyPublishCode(u, projectId) = 200
    THEN [projects EXCEPT ![projectId] = [@ EXCEPT !.verified = TRUE, !.status = "published"]]
    ELSE projects

VerifyPublish(u, projectId) ==
    /\ projects' = verifyPublishUpdate(u, projectId)
    /\ resp' = Response("verify-publish", u, projectId, verifyPublishCode(u, projectId))
    /\ UNCHANGED <<evaluations, nextProject, nextEval, inflight, keyVars, probeVars, authVars, pendingView>>
    /\ toast' = "none" /\ listing' = NoListing /\ audit' = NoAudit

\* ------------------------------------------------------------- DELETE /:id
\* req.params.id: an ObjectId, or a string ObjectId.isValid rejects
DeleteIds == ProjIds \cup {MalformedId}

\* The role and status guards applied to the document that findOne returned.
deleteGuard(u, project) ==
    IF project.studentId # u /\ roleOf(u) # "admin" THEN 403
    ELSE IF project.status = "evaluated" /\ roleOf(u) # "admin" THEN 403
    ELSE 200

DeleteBegin(u, id) ==
    /\ UNCHANGED <<dbVars, keyVars, probeVars, authVars, pendingView>>
    /\ toast' = "none" /\ listing' = NoListing /\ audit' = NoAudit
    /\ IF id \notin ProjIds
       THEN resp' = Response("delete", u, id, 400) /\ UNCHANGED inflight
       ELSE IF projects[id] = NoDoc
       THEN resp' = Response("delete", u, id, 404) /\ UNCHANGED inflight
       ELSE IF deleteGuard(u, projects[id]) # 200
       THEN resp' = Response("delete", u, id, deleteGuard(u, projects[id]))
            /\ UNCHANGED inflight
       ELSE /\ BagCardinality(inflight) < MaxInflight
            /\ Suspend([kind |-> "delete", pc |-> "deleteProject", user |-> u,
                        id |-> id, evaluationId |-> projects[id].evaluationId])
            /\ resp' = NoResp

\* projectsCollection.deleteOne; responds at once when no evaluation is attached
DeleteProject(r) ==
    /\ r.kind = "delete" /\ r.pc = "deleteProject"
    /\ projects' = [projects EXCEPT ![r.id] = NoDoc]
    /\ IF r.evaluationId # NullId
       THEN Resume(r, [r EXCEPT !.pc = "deleteEvaluation"]) /\ resp' = NoResp
       ELSE Finish(r) /\ resp' = Response("delete", r.user, r.id, 200)
    /\ UNCHANGED <<evaluations, nextProject, nextEval, keyVars, probeVars, authVars, pendingView>>
    /\ toast' = "none" /\ listing' = NoListing /\ audit' = NoAudit

\* evaluationsCollection.deleteOne({ _id: project.evaluationId })
DeleteEvaluationBlanking(r) ==
    /\ r.kind = "delete" /\ r.pc = "deleteEvaluation"
    /\ evaluations' = [evaluations EXCEPT ![r.evaluationId] =
                           IF @ = NoDoc THEN NoDoc
                           ELSE [@ EXCEPT !.signature = NoSignature]]
    /\ Finish(r)
    /\ resp' = Response("delete", r.user, r.id, 200)
    /\ UNCHANGED <<projects, nextProject, nextEval, keyVars, probeVars, authVars, pendingView>>
    /\ toast' = "none" /\ listing' = NoListing /\ audit' = NoAudit

DeleteEvaluation(r) ==
    /\ r.kind = "delete" /\ r.pc = "deleteEvaluation"
    /\ evaluations' = [evaluations EXCEPT ![r.evaluationId] = NoDoc]
    /\ Finish(r)
    /\ resp' = Response("delete", r.user, r.id, 200)
    /\ UNCHANGED <<projects, nextProject, nextEval, keyVars, probeVars, authVars, pendingView>>
    /\ toast' = "none" /\ listing' = NoListing /\ audit' = NoAudit

\* ----------------------------------------------------------- GET /assigned
\* find({ $or: [{ reviewerId: userId }, { reviewerId: null }] }), projected
assignedProjects(u) ==
    {[id |-> p,
      studentId |-> projects[p].studentId,
      title |-> projects[p].title,
      status |-> projects[p].status,
      encryptedData |-> projects[p].encryptedData,
      encryptedKey |-> projects[p].encryptedKey,
      iv |-> projects[p].iv,
      fileHash |-> projects[p].fileHash] :
        p \in {q \in ProjIds : /\ projects[q] # NoDoc
                               /\ \/ projects[q].reviewerId = u
                                  \/ projects[q].reviewerId = NullReviewer}}

Assigned(u) ==
    /\ audit' = checkPermission(roleOf(u), "project_file", "read")
    /\ IF ~hasPermission(roleOf(u), "project_file", "read")
       THEN /\ resp' = Response("assigned", u, NullId, 403)
            /\ listing' = NoListing
       ELSE /\ resp' = Response("assigned", u, NullId, 200)
            /\ listing' = [route |-> "assigned", user |-> u,
                           projects |-> assignedProjects(u)]
    /\ toast' = "none"
    /\ UNCHANGED <<dbVars, inflight, keyVars, probeVars, authVars, pendingView>>

\* -------------------------------------------------------- GET /my-projects
\* The evaluation shown with a project: the one its evaluationId names, else
\* the first one stored for the submission.
evalDataOf(p) ==
    IF findOne(evaluations, EvalIds, projects[p].evaluationId) # NoDoc
    THEN findOne(evaluations, EvalIds, projects[p].evaluationId)
    ELSE IF \E e \in EvalIds : evaluations[e] # NoDoc /\ evaluations[e].submissionId = p
    THEN evaluations[CHOOSE e \in EvalIds :
                        /\ evaluations[e] # NoDoc /\ evaluations[e].submissionId = p
                        /\ \A f \in EvalIds :
                              (evaluations[f] # NoDoc /\ evaluations[f].submissionId = p)
                              => e <= f]
    ELSE NoDoc

\* find({ studentId: userId }), each joined with its evaluation
myProjects(u) ==
    {[id |-> p,
      title |-> projects[p].title,
      status |-> projects[p].status,
      fileHash |-> projects[p].fileHash,
      grade |-> IF evalDataOf(p) # NoDoc /\ evalDataOf(p).grading # Empty
                THEN evalDataOf(p).grading ELSE projects[p].grade,
      feedback |-> IF evalDataOf(p) # NoDoc THEN evalDataOf(p).feedback ELSE Empty,
      verified |-> projects[p].verified] :
        p \in {q \in ProjIds : projects[q] # NoDoc /\ projects[q].studentId = u}}

MyProjects(u) ==
    /\ resp' = Response("my-projects", u, NullId, 200)
    /\ listing' = [route |-> "my-projects", user |-> u, projects |-> myProjects(u)]
    /\ toast' = "none" /\ audit' = NoAudit
    /\ UNCHANGED <<dbVars, inflight, keyVars, probeVars, authVars, pendingView>>

\* ---------------------------------------------------------------- GET /all
allProjects ==
    {[id |-> p,
      studentId |-> projects[p].studentId,
      title |-> projects[p].title,
      status |-> projects[p].status,
      fileHash |-> projects[p].fileHash,
      reviewerId |-> projects[p].reviewerId,
      verified |-> projects[p].verified,
      grade |-> IF findOne(evaluations, EvalIds, projects[p].evaluationId) # NoDoc
                THEN findOne(evaluations, EvalIds, projects[p].evaluationId).grading
                ELSE Empty] :
        p \in {q \in ProjIds : projects[q] # NoDoc}}

All(u) ==
    /\ IF roleOf(u) # "admin"
       THEN /\ resp' = Response("all", u, NullId, 403)
            /\ listing' = NoListing
       ELSE /\ resp' = Response("all", u, NullId, 200)
            /\ listing' = [route |-> "all", user |-> u, projects |-> allProjects]
    /\ toast' = "none" /\ audit' = NoAudit
    /\ UNCHANGED <<dbVars, inflight, keyVars, probeVars, authVars, pendingView>>

\* ------------------------------------------ GET /pending-evaluations (admin)
\* Projects with status 'evaluated' that are not verified, each joined with
\* the evaluation its evaluationId names.
pendingEvaluations ==
    [p \in ProjIds |->
        IF projects[p] # NoDoc /\ projects[p].status = "evaluated" /\ ~projects[p].verified
        THEN LET evaluationData == findOne(evaluations, EvalIds, projects[p].evaluationId)
             IN  [evaluation |->
                    IF evaluationData = NoDoc THEN NoDoc
                    ELSE [grading |-> evaluationData.grading,
                          feedback |-> evaluationData.feedback,
                          signature |-> evaluationData.signature,
                          reviewerEmail |-> evaluationData.evaluatorId]]
        ELSE NoDoc]

\* AdminDashboard.loadEvaluations
LoadEvaluations ==
    /\ pendingView' = pendingEvaluations
    /\ resp' = NoResp /\ toast' = "none"
    /\ listing' = NoListing /\ audit' = NoAudit
    /\ UNCHANGED <<dbVars, inflight, keyVars, probeVars, authVars>>

\* --------------------------------- AdminDashboard.handleVerifyAndPublish
\* Outcome of the client-side check of a listed submission, before any request
verifyOutcome(id, submission) ==
    LET evaluation == submission.evaluation
        signPub == keyDirectory[evaluation.reviewerEmail]
    IN  IF signPub = 0 THEN "key-not-found"
        ELSE IF verifySignature(
                    canonicalPayload(id, evaluation.grading, evaluation.feedback),
                    evaluation.signature, signPub)
        THEN "valid"
        ELSE "invalid"

Admin == CHOOSE a \in Admins : TRUE

\* A variant that sends the publish request whatever the check returned
handleVerifyAndPublishUnchecked(id) ==
    /\ pendingView[id] # NoDoc
    /\ UNCHANGED <<evaluations, nextProject, nextEval, inflight, keyVars, probeVars, authVars>>
    /\ listing' = NoListing /\ audit' = NoAudit
    /\ IF pendingView[id].evaluation = NoDoc
       THEN /\ resp' = NoResp /\ toast' = "none"
            /\ UNCHANGED <<projects, pendingView>>
       ELSE IF verifyOutcome(id, pendingView[id]) = "key-not-found"
       THEN /\ resp' = NoResp /\ toast' = "Verification Error"
            /\ UNCHANGED <<projects, pendingView>>
       ELSE /\ projects' = verifyPublishUpdate(Admin, id)
            /\ resp' = Response("verify-publish", Admin, id, verifyPublishCode(Admin, id))
            /\ IF verifyOutcome(id, pendingView[id]) = "invalid"
               THEN /\ toast' = "Signature Verification FAILED"
                    /\ UNCHANGED pendingView
               ELSE IF verifyPublishCode(Admin, id) = 200
               THEN /\ toast' = "Result published"
                    /\ pendingView' = pendingEvaluations'
               ELSE /\ toast' = "Verification Error"
                    /\ UNCHANGED pendingView

handleVerifyAndPublish(id) ==
    /\ pendingView[id] # NoDoc
    /\ UNCHANGED <<evaluations, nextProject, nextEval, inflight, keyVars, probeVars, authVars>>
    /\ listing' = NoListing /\ audit' = NoAudit
    /\ IF pendingView[id].evaluation = NoDoc
       THEN /\ resp' = NoResp /\ toast' = "none"
            /\ UNCHANGED <<projects, pendingView>>
       ELSE IF verifyOutcome(id, pendingView[id]) = "key-not-found"
       THEN /\ resp' = NoResp /\ toast' = "Verification Error"
            /\ UNCHANGED <<projects, pendingView>>
       ELSE IF verifyOutcome(id, pendingView[id]) = "invalid"
       THEN /\ resp' = NoResp /\ toast' = "Signature Verification FAILED"
            /\ UNCHANGED <<projects, pendingView>>
       ELSE /\ projects' = verifyPublishUpdate(Admin, id)
            /\ resp' = Response("verify-publish", Admin, id, verifyPublishCode(Admin, id))
            /\ IF verifyPublishCode(Admin, id) = 200
               THEN /\ toast' = "Result published"
                    /\ pendingView' = pendingEvaluations'
               ELSE /\ toast' = "Verification Error"
                    /\ UNCHANGED pendingView

\* ------------------------------------- AccessControlService (client RBAC)
AccessRoles == {"student", "reviewer", "admin"}
ResourceTypes == {"academic_artifacts", "assessment_metrics", "institutional_records"}
Actions == {"create", "read", "update", "delete", "sign", "verify"}

\* RBAC_MATRIX of AccessControlService.ts; a resource a role has no entry for
\* has no actions
AccessControlMatrix ==
    [student |->
        [academic_artifacts |-> {"create", "read"},
         assessment_metrics |-> {},
         institutional_records |-> {"read"}],
     reviewer |->
        [academic_artifacts |-> {"read"},
         assessment_metrics |-> {"create", "read", "sign"},
         institutional_records |-> {}],
     admin |->
        [academic_artifacts |-> {"read", "delete"},
         assessment_metrics |-> {"read", "verify"},
         institutional_records |-> {"create", "update", "read", "delete"}]]

\* An optional id of the context that is undefined or empty (falsy)
Unset == ""

\* A variant without the assignment check
checkAccessUnassigned(context, resource, action) ==
    IF action \notin AccessControlMatrix[context.role][resource]
    THEN [allowed |-> FALSE, reason |-> "role lacks permission"]
    ELSE IF /\ context.role = "student"
            /\ resource \in {"academic_artifacts", "institutional_records"}
            /\ context.resourceOwnerId # Unset
            /\ context.resourceOwnerId # context.userId
    THEN [allowed |-> FALSE, reason |-> "own artifacts and records only"]
    ELSE [allowed |-> TRUE, reason |-> "none"]

\* AccessControlService.checkAccess
checkAccess(context, resource, action) ==
    IF action \notin AccessControlMatrix[context.role][resource]
    THEN [allowed |-> FALSE, reason |-> "role lacks permission"]
    ELSE IF /\ context.role = "student"
            /\ resource \in {"academic_artifacts", "institutional_records"}
            /\ context.resourceOwnerId # Unset
            /\ context.resourceOwnerId # context.userId
    THEN [allowed |-> FALSE, reason |-> "own artifacts and records only"]
    ELSE IF /\ context.role = "reviewer"
            /\ resource = "academic_artifacts" /\ action = "read"
            /\ context.assignedReviewerId # Unset
            /\ context.assignedReviewerId # context.userId
    THEN [allowed |-> FALSE, reason |-> "assigned artifacts only"]
    ELSE [allowed |-> TRUE, reason |-> "none"]

AccessContexts ==
    [userId : Users, role : AccessRoles,
     resourceOwnerId : Students \cup {Unset},
     assignedReviewerId : Reviewers \cup {Unset}]

AccessInit ==
    /\ ProgramInit
    /\ tamper = NoTamper
    /\ unsealing = NoUnsealing
    /\ sealing = NoSealing
    /\ access \in [context : AccessContexts, resource : ResourceTypes,
                    action : Actions, checked : {FALSE},
                    decision : {[allowed |-> FALSE, reason |-> "none"]}]

CheckAccess ==
    /\ ~access.checked
    /\ access' = [access EXCEPT
                     !.checked = TRUE,
                     !.decision = checkAccess(access.context, access.resource,
                                              access.action)]
    /\ UNCHANGED <<programVars, tamper, unsealing, sealing>>

AccessSpec == AccessInit /\ [][CheckAccess]_vars

\* -------------------------- the signed payload, re-checked by the dashboard
MaxText == 2
Chars == {"A", ":"}
Texts == UNION {[1..n -> Chars] : n \in 1..MaxText}

\* A reviewer signs (grade, feedback) for a submission as handleSubmitEvaluation
\* does; the stored evaluation holds (storedGrade, storedFeedback).
PayloadInit ==
    /\ ProgramInit
    /\ access = NoAccess
    /\ unsealing = NoUnsealing
    /\ sealing = NoSealing
    /\ tamper \in [id : ProjIds, key : 1..MaxKeys,
                    grade : Texts, feedback : Texts,
                    storedGrade : Texts, storedFeedback : Texts,
                    checked : {FALSE}, verified : {FALSE}]

\* AdminDashboard.handleVerifyAndPublish's reconstruction of the payload from
\* what is stored and its verification under the reviewer's public key
Reverify ==
    /\ ~tamper.checked
    /\ tamper' = [tamper EXCEPT
                     !.checked = TRUE,
                     !.verified = verifySignature(
                         canonicalPayload(tamper.id, tamper.storedGrade,
                                          tamper.storedFeedback),
                         signData(canonicalPayload(tamper.id, tamper.grade,
                                                   tamper.feedback), tamper.key),
                         tamper.key)]
    /\ UNCHANGED <<programVars, access, unsealing, sealing>>

PayloadSpec == PayloadInit /\ [][Reverify]_vars

\* ------------------------------------------------ CryptoService, symbolically
\* A file's bytes, the AES-GCM keys and the initialisation vectors.  "k1" and
\* "iv1" are what the student's sealing drew; "k2" is a key of somebody else.
Files == {"F1", "F2"}
AesKeys == {"k1", "k2"}
Ivs == {"iv1", "iv2"}
NoFile == ""

\* An RSA-OAEP pair is named by the principal who holds its private half;
\* nobody holds the private half of Temporary.
Temporary == "temporary"
NotLoaded == "not loaded"

arrayBufferToBase64(buffer) == [base64 |-> buffer]

\* SHA-256 of a string
hashData(text) == [sha256 |-> text]

\* AES-GCM: the ciphertext carries its authentication tag, so it decrypts
\* only under the key and iv it was made with and only if no byte changed.
encryptData(data, aesKey, iv) ==
    [key |-> aesKey, iv |-> iv, data |-> data, flipped |-> FALSE]

decryptDataUnauthenticated(cipherText, iv, aesKey) ==
    IF cipherText.key = aesKey /\ cipherText.iv = iv
    THEN [threw |-> FALSE, data |-> cipherText.data]
    ELSE [threw |-> TRUE, data |-> NoFile]

decryptData(cipherText, iv, aesKey) ==
    IF ~cipherText.flipped /\ cipherText.key = aesKey /\ cipherText.iv = iv
    THEN [threw |-> FALSE, data |-> cipherText.data]
    ELSE [threw |-> TRUE, data |-> NoFile]

\* RSA-OAEP: the wrapped key unwraps only under the private half of the pair
\* it was wrapped for and only if no byte changed.
wrapKey(aesKey, publicKey) ==
    [wrappedFor |-> publicKey, key |-> aesKey, flipped |-> FALSE]

unwrapKey(wrappedKey, privateKey) ==
    IF ~wrappedKey.flipped /\ wrappedKey.wrappedFor = privateKey
    THEN [threw |-> FALSE, key |-> wrappedKey.key]
    ELSE [threw |-> TRUE, key |-> ""]

\* ------------------------------- ReviewerDashboard.handleDecryptAndDownload
Reader == "r1"

\* What the student sealed for the reader
SealedOriginal ==
    [fileHash |-> hashData(arrayBufferToBase64("F1")),
     encryptedData |-> encryptData("F1", "k1", "iv1"),
     iv |-> "iv1",
     encryptedKey |-> wrapKey("k1", Reader)]

\* What storage can hold when the reader opens the submission: every field
\* is the sealed one or one that somebody without "k1" can put in its place
\* (changed bytes, or a value made with another key).
StoredCiphertexts ==
    {c \in [key : AesKeys, iv : Ivs, data : Files, flipped : BOOLEAN] :
        c.key = "k1" => (c.iv = "iv1" /\ c.data = "F1")}

StoredWrappedKeys ==
    [wrappedFor : Reviewers, key : AesKeys, flipped : BOOLEAN]

StoredSubmissions ==
    [fileHash : {hashData(arrayBufferToBase64(f)) : f \in Files},
     encryptedData : StoredCiphertexts,
     iv : Ivs,
     encryptedKey : StoredWrappedKeys]

KeysNotLoaded == "Encryption keys not loaded. Please re-login."
DecryptionFailed == "Decryption failed. Ensure you are the intended reviewer."
IntegrityFailed == "Integrity Check Failed! Hash mismatch."
IntegrityVerified == "Integrity Verified. File Decrypted."

\* The toast it shows and the file it hands to the browser to download
handleDecryptAndDownload(project, encryptionKeys) ==
    IF encryptionKeys = NotLoaded
    THEN [toast |-> KeysNotLoaded, downloaded |-> NoFile]
    ELSE LET aesKey == unwrapKey(project.encryptedKey, encryptionKeys)
             decrypted == decryptData(project.encryptedData, project.iv,
                                      aesKey.key)
         IN  IF aesKey.threw \/ decrypted.threw
             THEN [toast |-> DecryptionFailed, downloaded |-> NoFile]
             ELSE [toast |-> IF hashData(arrayBufferToBase64(decrypted.data))
                                    # project.fileHash
                             THEN IntegrityFailed
                             ELSE IntegrityVerified,
                   downloaded |-> decrypted.data]

UnsealInit ==
    /\ ProgramInit
    /\ access = NoAccess
    /\ tamper = NoTamper
    /\ sealing = NoSealing
    /\ unsealing \in [project : StoredSubmissions,
                       encryptionKeys : {Reader, NotLoaded},
                       checked : {FALSE},
                       toast : {"none"}, downloaded : {NoFile}]

DecryptAndDownload ==
    /\ ~unsealing.checked
    /\ unsealing' =
           [unsealing EXCEPT
               !.checked = TRUE,
               !.toast = handleDecryptAndDownload(unsealing.project,
                             unsealing.encryptionKeys).toast,
               !.downloaded = handleDecryptAndDownload(unsealing.project,
                                  unsealing.encryptionKeys).downloaded]
    /\ UNCHANGED <<programVars, access, tamper, sealing>>

UnsealSpec == UnsealInit /\ [][DecryptAndDownload]_vars

\* --------------------------------------- NewSubmissionModal.handleSubmit
NotLoggedIn == ""

\* localStorage public_key_directory in insertion order: the principals who
\* have generated keys in this browser, none twice
MaxDirectory == 2
DirectoryOwners == {"s1", "r1", "r2"}
Directories ==
    {dir \in UNION {[1..n -> DirectoryOwners] : n \in 0..MaxDirectory} :
        \A i, j \in DOMAIN dir : dir[i] = dir[j] => i = j}

\* d.email?.includes('reviewer'): the directory entry's email is the login
\* email, and reviewers are the principals whose email says so.
emailIncludesReviewer(owner) == roleOf(owner) = "reviewer"

\* Step 5 of handleSubmit: the public key the AES key is wrapped under
reviewerPubKey(dir) ==
    IF \E i \in DOMAIN dir : emailIncludesReviewer(dir[i])
    THEN dir[CHOOSE i \in DOMAIN dir :
                 /\ emailIncludesReviewer(dir[i])
                 /\ \A j \in DOMAIN dir : emailIncludesReviewer(dir[j]) => i <= j]
    ELSE IF Len(dir) > 0 THEN dir[1]
    ELSE Temporary

\* The awaited steps inside the try, any of which can throw
SealSteps == {"arrayBuffer", "hashData", "generateAESKey", "encryptData",
              "importPublicKey", "wrapKey"}

FillAllFields == "Please fill all fields"
EncryptionFailed == "Encryption failed"
SubmissionUploaded == "Submission Encrypted and Uploaded Successfully"

sealedSubmission(title, file, user, dir) ==
    [studentId |-> user,
     title |-> title,
     status |-> "pending",
     fileHash |-> hashData(arrayBufferToBase64(file)),
     encryptedData |-> encryptData(file, "k1", "iv1"),
     encryptedKey |-> wrapKey("k1", reviewerPubKey(dir)),
     iv |-> "iv1"]

handleSubmitPartial(title, file, user, dir, throws) ==
    IF title = Empty \/ file = NoFile \/ user = NotLoggedIn
    THEN [toast |-> FillAllFields, saved |-> NoDoc]
    ELSE IF throws \in SealSteps \ {"importPublicKey", "wrapKey"}
    THEN [toast |-> EncryptionFailed, saved |-> NoDoc]
    ELSE IF throws # "none"
    THEN [toast |-> EncryptionFailed,
          saved |-> [sealedSubmission(title, file, user, dir)
                        EXCEPT !.encryptedKey = NoDoc]]
    ELSE [toast |-> SubmissionUploaded,
          saved |-> sealedSubmission(title, file, user, dir)]

\* The toast it shows and the record it gives MockDatabaseService.saveSubmission
handleSubmit(title, file, user, dir, throws) ==
    IF title = Empty \/ file = NoFile \/ user = NotLoggedIn
    THEN [toast |-> FillAllFields, saved |-> NoDoc]
    ELSE IF throws # "none"
    THEN [toast |-> EncryptionFailed, saved |-> NoDoc]
    ELSE [toast |-> SubmissionUploaded,
          saved |-> sealedSubmission(title, file, user, dir)]

\* `assigned` is the reviewer the submission is meant for, which the form
\* does not ask for and handleSubmit never reads.
SealInit ==
    /\ ProgramInit
    /\ access = NoAccess
    /\ tamper = NoTamper
    /\ unsealing = NoUnsealing
    /\ sealing \in [title : {<<"T">>, Empty},
                     file : Files \cup {NoFile},
                     user : {Submitter, NotLoggedIn},
                     directory : Directories,
                     assigned : Reviewers,
                     throws : SealSteps \cup {"none"},
                     checked : {FALSE},
                     toast : {"none"}, saved : {NoDoc}]

HandleSubmit ==
    /\ ~sealing.checked
    /\ sealing' =
           [sealing EXCEPT
               !.checked = TRUE,
               !.toast = handleSubmit(sealing.title, sealing.file, sealing.user,
                             sealing.directory, sealing.throws).toast,
               !.saved = handleSubmit(sealing.title, sealing.file, sealing.user,
                             sealing.directory, sealing.throws).saved]
    /\ UNCHANGED <<programVars, access, tamper, unsealing>>

\* The form in the browser, and POST /submit on the server for a client that
\* uploads what it sealed
SealNext ==
    \/ HandleSubmit
    \/ \E body \in SubmitBodies(Submitter) : Submit(Submitter, body)

SealSpec == SealInit /\ [][SealNext]_vars

\* ------------------------------------------------------- server/routes/auth.js
\* The principals who hold accounts here: a student and the administrator.
\* Each asks for the role it has in the rest of the model, and its email
\* serves as its username and as its _id.  No request sends rememberMe or
\* an mfaToken, and no OTP outlives its five minutes unused.
AuthUsers == {"s1", "a1"}

GoodPassword == "a password of twelve or more"
ShortPassword == "short"
WrongPassword == "not the password"
MinPasswordLength == 12
length(password) == IF password = ShortPassword THEN 5 ELSE MinPasswordLength

ADMIN_SECRET == "process.env.ADMIN_SECRET_KEY"
WrongSecret == "a guess"

\* The JSON body of an auth route's answer, as far as the model keeps it
AuthAnswer(route) == [route |-> route]

\* generateToken: a JWT over the user's id and role, signed by the server.
\* Tokens made at different times differ in iat; jti stands for that.
generateToken(user, jti) ==
    [userId |-> user.email, role |-> user.role, jti |-> jti, signed |-> TRUE]

\* jwt.verify under JWT_SECRET
jwtVerify(token) == token.signed

\* The tokens a client can present: the ones the server has answered, and
\* tokens of the same shape that the server did not sign.
Tokens ==
    {t \in [userId : AuthUsers, role : AccessRoles, jti : OtpIds,
            signed : BOOLEAN] :
        /\ t.role = roleOf(t.userId)
        /\ t.signed => (otpLog[t.jti].tokens > 0 /\ otpLog[t.jti].email = t.userId)}

authOutputs(code, route) ==
    /\ resp' = code
    /\ listing' = AuthAnswer(route)
    /\ toast' = "none" /\ audit' = NoAudit

\* POST /register
RegisterBodies(u) ==
    [email : {u}, password : {GoodPassword, ShortPassword},
     role : {roleOf(u), ""}]

Register(u, body) ==
    /\ UNCHANGED <<dbVars, inflight, keyVars, probeVars, pendingView,
                   otps, sessions, nextOtp, otpLog>>
    /\ IF body.role = ""
       THEN authOutputs(400, "register") /\ UNCHANGED users
       ELSE IF length(body.password) < MinPasswordLength
       THEN authOutputs(400, "register") /\ UNCHANGED users
       ELSE IF users[u] # NoDoc
       THEN authOutputs(409, "register") /\ UNCHANGED users
       ELSE /\ users' = [users EXCEPT ![u] =
                   [email |-> body.email, passwordHash |-> body.password,
                    role |-> body.role]]
            /\ authOutputs(201, "register")

\* POST /create-admin
CreateAdminBodies(u) ==
    [email : {u}, password : {GoodPassword, ShortPassword},
     secretKey : {ADMIN_SECRET, WrongSecret, ""}]

CreateAdmin(u, body) ==
    /\ UNCHANGED <<dbVars, inflight, keyVars, probeVars, pendingView,
                   otps, sessions, nextOtp, otpLog>>
    /\ IF body.secretKey = ""
       THEN authOutputs(400, "create-admin") /\ UNCHANGED users
       ELSE IF body.secretKey # ADMIN_SECRET
       THEN authOutputs(403, "create-admin") /\ UNCHANGED users
       ELSE IF length(body.password) < MinPasswordLength
       THEN authOutputs(400, "create-admin") /\ UNCHANGED users
       ELSE IF users[u] # NoDoc
       THEN authOutputs(409, "create-admin") /\ UNCHANGED users
       ELSE /\ users' = [users EXCEPT ![u] =
                   [email |-> body.email, passwordHash |-> body.password,
                    role |-> "admin"]]
            /\ authOutputs(201, "create-admin")

\* POST /login: the credentials, then an OTP record for the second step
Login(u, password) ==
    /\ UNCHANGED <<dbVars, inflight, keyVars, probeVars, pendingView,
                   users, sessions>>
    /\ IF users[u] = NoDoc
       THEN authOutputs(401, "login") /\ UNCHANGED <<otps, nextOtp, otpLog>>
       ELSE IF users[u].passwordHash # password
       THEN authOutputs(401, "login") /\ UNCHANGED <<otps, nextOtp, otpLog>>
       ELSE /\ nextOtp <= MaxOtps
            /\ otps' = [otps EXCEPT ![nextOtp] = [email |-> u, otp |-> nextOtp]]
            /\ otpLog' = [otpLog EXCEPT ![nextOtp].email = u]
            /\ nextOtp' = nextOtp + 1
            /\ authOutputs(200, "login")

\* POST /verify-otp up to its first await: otpsCollection.findOne
VerifyOtpBegin(email, otp) ==
    /\ UNCHANGED <<dbVars, keyVars, probeVars, pendingView, authVars>>
    /\ IF otp = NullId
       THEN authOutputs(400, "verify-otp") /\ UNCHANGED inflight
       ELSE IF ~\E o \in OtpIds :
                  otps[o] # NoDoc /\ otps[o].email = email /\ otps[o].otp = otp
       THEN authOutputs(401, "verify-otp") /\ UNCHANGED inflight
       ELSE /\ BagCardinality(inflight) < MaxInflight
            /\ Suspend([kind |-> "verify-otp", pc |-> "deleteOne",
                        email |-> email, otp |-> otp])
            /\ resp' = NoResp /\ listing' = NoListing
            /\ toast' = "none" /\ audit' = NoAudit

\* otpsCollection.deleteOne({ _id: otpRecord._id })
VerifyOtpDelete(r) ==
    /\ r.kind = "verify-otp" /\ r.pc = "deleteOne"
    /\ otps' = [otps EXCEPT ![r.otp] = NoDoc]
    /\ Resume(r, [r EXCEPT !.pc = "insertOne"])
    /\ resp' = NoResp /\ listing' = NoListing
    /\ toast' = "none" /\ audit' = NoAudit
    /\ UNCHANGED <<dbVars, keyVars, probeVars, pendingView,
                   users, sessions, nextOtp, otpLog>>

\* The user lookup, the token, sessionsCollection.insertOne and the answer
VerifyOtpSession(r) ==
    /\ r.kind = "verify-otp" /\ r.pc = "insertOne"
    /\ Finish(r)
    /\ UNCHANGED <<dbVars, keyVars, probeVars, pendingView,
                   users, otps, nextOtp>>
    /\ IF users[r.email] = NoDoc
       THEN authOutputs(404, "verify-otp") /\ UNCHANGED <<sessions, otpLog>>
       ELSE /\ sessions' = sessions \cup {generateToken(users[r.email], r.otp)}
            /\ otpLog' = [otpLog EXCEPT ![r.otp].tokens = @ + 1]
            /\ authOutputs(200, "verify-otp")

\* POST /logout: sessionsCollection.deleteOne({ token }), and 200 always
Logout(token) ==
    /\ sessions' = sessions \ {token}
    /\ otpLog' = IF token \in sessions
                 THEN [otpLog EXCEPT ![token.jti].loggedOut = TRUE]
                 ELSE otpLog
    /\ authOutputs(200, "logout")
    /\ UNCHANGED <<dbVars, inflight, keyVars, probeVars, pendingView,
                   users, otps, nextOtp>>

\* POST /verify-token: the signature, then the session
VerifyToken(token) ==
    /\ authOutputs(IF jwtVerify(token) /\ token \in sessions THEN 200 ELSE 401,
                   "verify-token")
    /\ UNCHANGED <<dbVars, inflight, keyVars, probeVars, pendingView, authVars>>

\* middleware authenticate: the Bearer token's signature and expiry, and
\* nothing else; req.user is what the token says.
authenticate(token) == jwtVerify(token)

Unauthenticated ==
    /\ resp' = 401
    /\ listing' = NoListing /\ toast' = "none" /\ audit' = NoAudit
    /\ UNCHANGED <<dbVars, inflight, keyVars, probeVars, pendingView, authVars>>

\* A request to a project route that presents a token
AuthenticatedRequest(token) ==
    IF ~authenticate(token) THEN Unauthenticated
    ELSE \/ \E body \in SubmitBodies(Submitter) : Submit(token.userId, body)
         \/ \E projectId \in VerifyPublishIds(token.userId) :
               VerifyPublish(token.userId, projectId)
         \/ Assigned(token.userId)
         \/ MyProjects(token.userId)
         \/ All(token.userId)

\* --------------------------------------------------------------- behaviours
\* The Express router of the project routes
RouterNext ==
    \/ \E u \in Users : \E body \in SubmitBodies(u) : Submit(u, body)
    \/ \E u \in Users : \E body \in EvaluateBodies(u) : EvaluateBegin(u, body)
    \/ \E r \in BagToSet(inflight) : EvaluateInsert(r)
    \/ \E r \in BagToSet(inflight) : EvaluateUpdate(r)
    \/ \E u \in Users : \E projectId \in VerifyPublishIds(u) : VerifyPublish(u, projectId)
    \/ \E u \in Users, id \in DeleteIds : DeleteBegin(u, id)
    \/ \E r \in BagToSet(inflight) : DeleteProject(r)
    \/ \E r \in BagToSet(inflight) : DeleteEvaluation(r)
    \/ \E u \in Users : Assigned(u)
    \/ \E u \in Users : MyProjects(u)
    \/ \E u \in Users : All(u)

RouterSpec == Init /\ [][RouterNext]_vars

\* The reviewer's sessions in either browser and the admin dashboard, with
\* the routes their work goes through
DashboardNext ==
    \/ \E b \in Browsers : mockLogin(b, ChosenReviewer)
    \/ logout(ChosenReviewer)
    \/ \E body \in SubmitBodies(Submitter) : Submit(Submitter, body)
    \/ \E u \in Reviewers : \E body \in EvaluateBodies(u) : EvaluateBegin(u, body)
    \/ \E r \in BagToSet(inflight) : EvaluateInsert(r)
    \/ \E r \in BagToSet(inflight) : EvaluateUpdate(r)
    \/ \E u \in Admins : \E projectId \in VerifyPublishIds(u) : VerifyPublish(u, projectId)
    \/ LoadEvaluations
    \/ \E id \in ProjIds : handleVerifyAndPublish(id)

DashboardSpec == Init /\ [][DashboardNext]_vars

\* Everything together
Next == RouterNext \/ DashboardNext

Spec == Init /\ [][Next]_vars

\* The auth routes, and project routes behind the authenticate middleware
AuthNext ==
    \/ \E u \in AuthUsers : \E body \in RegisterBodies(u) : Register(u, body)
    \/ \E u \in AuthUsers \cap Admins :
          \E body \in CreateAdminBodies(u) : CreateAdmin(u, body)
    \/ \E u \in AuthUsers : \E password \in {GoodPassword, WrongPassword} :
          Login(u, password)
    \/ \E email \in AuthUsers : \E otp \in OtpIds \cup {NullId} :
          VerifyOtpBegin(email, otp)
    \/ \E r \in BagToSet(inflight) : VerifyOtpDelete(r)
    \/ \E r \in BagToSet(inflight) : VerifyOtpSession(r)
    \/ \E token \in Tokens : Logout(token)
    \/ \E token \in Tokens : VerifyToken(token)
    \/ \E token \in Tokens : AuthenticatedRequest(token)

AuthSpec == Init /\ [][AuthNext]_vars

\* ================================================================== claims
Stored(p) == projects[p] # NoDoc

statusIn(p, statuses) == Stored(p) /\ projects[p].status \in statuses

Rank(status) ==
    IF status = "pending" THEN 1 ELSE IF status = "evaluated" THEN 2 ELSE 3

\* Evaluation records that refer to submission p
evaluationsOf(evals, p) ==
    {e \in EvalIds : evals[e] # NoDoc /\ evals[e].submissionId = p}

\* The evaluation a project document points to verifies under the signing key
\* registered for its evaluator.
storedEvaluationVerifies(p) ==
    LET e == findOne(evaluations, EvalIds, projects[p].evaluationId)
    IN  /\ e # NoDoc
        /\ verifySignature(canonicalPayload(p, e.grading, e.feedback),
                           e.signature, keyDirectory[e.evaluatorId])

\* C1: an evaluate call that reads a submission which is Evaluated or
\* Published, or which already has an Evaluation, is answered with an error
\* and goes no further (so it inserts no Evaluation and updates nothing).
C1_EvaluateRejectedUnlessPending ==
    [][\A u \in Users : \A body \in EvaluateBodies(u) :
         ( /\ EvaluateBegin(u, body)
           /\ body.submissionId \in ProjIds
           /\ Stored(body.submissionId)
           /\ \/ projects[body.submissionId].status \in {"evaluated", "published"}
              \/ projects[body.submissionId].evaluationId # NullId )
         => /\ resp' \notin {NoResp, 201}
            /\ inflight' = inflight]_vars

\* C2: at most one Evaluation record exists for a submission, under every
\* interleaving of the evaluate handlers' steps.
C2_AtMostOneEvaluation ==
    \A p \in ProjIds : Cardinality(evaluationsOf(evaluations, p)) <= 1

\* C3: a step that makes a submission Published is taken only when the stored
\* Evaluation's signature verifies over the canonical payload under the
\* evaluating reviewer's registered public signing key.
C3_PublishedOnlyAfterVerification ==
    [][\A p \in ProjIds :
         ( /\ Stored(p) /\ projects'[p] # NoDoc
           /\ projects[p].status # "published"
           /\ projects'[p].status = "published" )
         => storedEvaluationVerifies(p)]_vars

\* C4: when the admin dashboard's signature check of a listed submission does
\* not succeed, the failure is reported and nothing stored changes: no status,
\* no verified flag, no Evaluation.
listedSignatureVerifies(id) ==
    LET ev == pendingView[id].evaluation
    IN  verifySignature(<<id, ":">> \o ev.grading \o <<":">> \o ev.feedback,
                        ev.signature, keyDirectory[ev.reviewerEmail])

C4_FailedVerifyChangesNothing ==
    [][\A id \in ProjIds :
         ( /\ handleVerifyAndPublish(id)
           /\ pendingView[id].evaluation # NoDoc
           /\ ~listedSignatureVerifies(id) )
         => /\ toast' \in {"Signature Verification FAILED", "Verification Error"}
            /\ keyDirectory[pendingView[id].evaluation.reviewerEmail] # 0
                  => toast' = "Signature Verification FAILED"
            /\ resp' = NoResp
            /\ UNCHANGED <<projects, evaluations>>]_vars

C4_Witness ==
    /\ toast = "Signature Verification FAILED"
    /\ \E p \in ProjIds : /\ statusIn(p, {"evaluated"})
                          /\ ~projects[p].verified
                          /\ pendingView[p] # NoDoc

\* C5: a verify-publish request on a Pending submission is answered with an
\* error and the submission stays Pending.
C5_VerifyPublishOnPendingFails ==
    [][\A u \in Users : \A p \in ProjIds :
         (VerifyPublish(u, p) /\ statusIn(p, {"pending"}))
         => /\ resp' # 200
            /\ projects'[p] = projects[p]]_vars

\* C6: an admin's verify-publish request on a Published submission is
\* answered 200 and leaves the projects and the evaluations as they were.
C6_RepeatedPublishIdempotent ==
    [][\A u \in Admins : \A p \in ProjIds :
         (VerifyPublish(u, p) /\ statusIn(p, {"published"}))
         => /\ resp' = 200
            /\ UNCHANGED <<projects, evaluations>>]_vars

C6_Witness ==
    /\ resp = 200
    /\ toast = "none"
    /\ \E p \in ProjIds : /\ statusIn(p, {"published"})
                          /\ projects[p].verified
                          /\ storedEvaluationVerifies(p)

\* C7: no step moves a stored submission's status to an earlier stage of
\* Pending < Evaluated < Published.
C7_StatusMonotonic ==
    [][\A p \in ProjIds :
         (Stored(p) /\ projects'[p] # NoDoc)
         => Rank(projects'[p].status) >= Rank(projects[p].status)]_vars

\* C8: a Delete request on a Published submission is rejected for every
\* caller, and no step removes a Published submission.
C8_PublishedNeverDeleted ==
    [][\A p \in ProjIds :
         statusIn(p, {"published"})
         => /\ projects'[p] # NoDoc
            /\ \A u \in Users :
                 DeleteBegin(u, p) => (resp' \notin {NoResp, 200} /\ inflight' = inflight)]_vars

\* C9: the owner's Delete request on a submission that is Evaluated or
\* Published is rejected.
C9_OwnerDeletesOnlyPending ==
    [][\A p \in ProjIds :
         (statusIn(p, {"evaluated", "published"}) /\ DeleteBegin(projects[p].studentId, p))
         => (resp' \notin {NoResp, 200} /\ inflight' = inflight)]_vars

\* C10: when a Delete request has been answered 200, no Evaluation record
\* refers to the deleted submission.
C10_DeleteCascades ==
    [][\A r \in BagToSet(inflight) :
         ( /\ r.kind = "delete"
           /\ DeleteProject(r) \/ DeleteEvaluation(r)
           /\ resp' = 200 )
         => evaluationsOf(evaluations', r.id) = {}]_vars

\* C11: whenever an Evaluation record is stored, the submission it refers to
\* is stored too and its status is Evaluated or Published.
C11_EvaluationImpliesEvaluated ==
    \A e \in EvalIds :
        evaluations[e] # NoDoc
        => statusIn(evaluations[e].submissionId, {"evaluated", "published"})

\* C12: an evaluate request from a caller who is not the reviewer assigned to
\* the submission it names is answered with an error and goes no further (so
\* it creates no Evaluation).
C12_OnlyAssignedReviewerEvaluates ==
    [][\A u \in Users : \A body \in EvaluateBodies(u) :
         ( /\ EvaluateBegin(u, body)
           /\ body.submissionId \in ProjIds
           /\ Stored(body.submissionId)
           /\ projects[body.submissionId].reviewerId # u )
         => /\ resp' \notin {NoResp, 201}
            /\ inflight' = inflight]_vars

\* C13: every submission a listing route returns to a reviewer has that
\* reviewer as its assigned reviewer.
C13_ReviewerReadsOnlyAssigned ==
    [][\A u \in Reviewers :
         ( /\ Assigned(u) \/ MyProjects(u) \/ All(u)
           /\ listing'.route # "none" )
         => \A d \in listing'.projects : projects[d.id].reviewerId = u]_vars

\* C14: every submission a listing route returns to a student is owned by
\* that student, and a submission created by submit is owned by the caller
\* whatever student identifier the body carries.
C14_StudentsIsolated ==
    [][/\ \A u \in Students :
            ( /\ Assigned(u) \/ MyProjects(u) \/ All(u)
              /\ listing'.route # "none" )
            => \A d \in listing'.projects : projects[d.id].studentId = u
       /\ \A u \in Users : \A body \in SubmitBodies(u) :
            (Submit(u, body) /\ resp' = 201)
            => projects'[nextProject].studentId = u]_vars

\* C15: a submit, evaluate or delete request goes through only if the RBAC
\* matrix grants the caller's role the action on the resource type (create on
\* project_file, create on evaluation_report, delete on project_file); in
\* particular a student's delete of their own project is denied.
C15_RequestsFollowMatrix ==
    [][/\ \A u \in Users : \A body \in SubmitBodies(u) :
            (Submit(u, body) /\ ~hasPermission(roleOf(u), "project_file", "create"))
            => resp' = 403 /\ UNCHANGED projects
       /\ \A u \in Users : \A body \in EvaluateBodies(u) :
            (EvaluateBegin(u, body)
             /\ ~hasPermission(roleOf(u), "evaluation_report", "create"))
            => resp' = 403 /\ inflight' = inflight
       /\ \A u \in Users : \A p \in ProjIds :
            (DeleteBegin(u, p) /\ Stored(p)
             /\ ~hasPermission(roleOf(u), "project_file", "delete"))
            => resp' \notin {NoResp, 200} /\ inflight' = inflight]_vars

\* C16: checkAccess decides as the four-step procedure does: deny when the
\* matrix does not grant the role the action on the resource type; else deny a
\* student on an artifact or a record whose owner is set and is not the
\* principal; else deny a reviewer reading an artifact whose assigned reviewer
\* is set and is not the principal; else allow.
FourStepAllows(context, resource, action) ==
    LET granted == action \in AccessControlMatrix[context.role][resource]
        notOwner == /\ context.role = "student"
                    /\ resource \in {"academic_artifacts", "institutional_records"}
                    /\ context.resourceOwnerId # Unset
                    /\ context.resourceOwnerId # context.userId
        notAssigned == /\ context.role = "reviewer"
                       /\ resource = "academic_artifacts"
                       /\ action = "read"
                       /\ context.assignedReviewerId # Unset
                       /\ context.assignedReviewerId # context.userId
    IN  granted /\ ~notOwner /\ ~notAssigned

C16_CheckAccessIsFourStep ==
    access.checked
    => access.decision.allowed
         = FourStepAllows(access.context, access.resource, access.action)

C16_Witness ==
    /\ access.checked
    /\ ~access.decision.allowed
    /\ access.context.role = "reviewer"
    /\ access.action = "read"
    /\ access.resource = "academic_artifacts"
    /\ access.context.assignedReviewerId \notin {Unset, access.context.userId}

\* C17: a delete request denied because the caller is not the owner is
\* answered as a request for a project that does not exist is: 404.
C17_DenialLooksLikeNotFound ==
    [][\A u \in Users : \A p \in ProjIds :
         ( /\ DeleteBegin(u, p)
           /\ Stored(p)
           /\ projects[p].studentId # u
           /\ roleOf(u) # "admin" )
         => resp' = 404]_vars

\* C18: every request step that allows or denies on role or ownership grounds
\* logs an audit line for that decision.
C18_EveryDecisionAudited ==
    [][/\ \A u \in Users : \A body \in SubmitBodies(u) :
            Submit(u, body) => audit' # NoAudit
       /\ \A u \in Users : \A body \in EvaluateBodies(u) :
            EvaluateBegin(u, body) => audit' # NoAudit
       /\ \A u \in Users : \A p \in VerifyPublishIds(u) :
            VerifyPublish(u, p) => audit' # NoAudit
       /\ \A u \in Users : \A p \in ProjIds :
            (DeleteBegin(u, p) /\ Stored(p)) => audit' # NoAudit
       /\ \A u \in Users :
            (Assigned(u) \/ All(u)) => audit' # NoAudit]_vars

\* C19: when the stored Evaluation of an Evaluated submission carries the
\* reviewer's signature over exactly the stored grade and feedback, the
\* admin's verify-and-publish of the freshly listed submission publishes it,
\* whatever logins and logouts of the reviewer came before.
validlySigned(p) ==
    LET e == findOne(evaluations, EvalIds, projects[p].evaluationId)
    IN  /\ e # NoDoc
        /\ e.signature.key # 0
        /\ e.signature = signData(canonicalPayload(p, e.grading, e.feedback),
                                  e.signature.key)

C19_ValidSignaturePublishes ==
    [][\A p \in ProjIds :
         ( /\ statusIn(p, {"evaluated"})
           /\ validlySigned(p)
           /\ pendingView[p] = pendingEvaluations[p]
           /\ handleVerifyAndPublish(p) )
         => /\ projects'[p] # NoDoc
            /\ projects'[p].status = "published"]_vars

\* C20: when the stored grade or feedback differs from the signed one, the
\* signature does not verify over the payload rebuilt from what is stored.
C20_SignatureBindsTriple ==
    ( /\ tamper.checked
      /\ \/ tamper.storedGrade # tamper.grade
         \/ tamper.storedFeedback # tamper.feedback )
    => ~tamper.verified

\* ---------------------------------------------------------------- unsealing
unsealed == unsealing.checked /\ unsealing.encryptionKeys # NotLoaded

\* The decryption of the stored submission under the reader's keys
unsealedText ==
    decryptData(unsealing.project.encryptedData, unsealing.project.iv,
                unwrapKey(unsealing.project.encryptedKey,
                          unsealing.encryptionKeys).key)

hashMismatch ==
    /\ unsealed
    /\ ~unwrapKey(unsealing.project.encryptedKey, unsealing.encryptionKeys).threw
    /\ ~unsealedText.threw
    /\ hashData(arrayBufferToBase64(unsealedText.data))
           # unsealing.project.fileHash

\* C21: when the hash of the decrypted file differs from the stored fileHash,
\* the unseal ends in an integrity failure and hands out no plaintext.
C21_HashMismatchRaises ==
    hashMismatch =>
        (unsealing.toast = IntegrityFailed /\ unsealing.downloaded = NoFile)

\* The stored ciphertext or wrapped key is not the sealed one
altered ==
    \/ unsealing.project.encryptedData # SealedOriginal.encryptedData
    \/ unsealing.project.encryptedKey # SealedOriginal.encryptedKey

\* Both were replaced together by a complete sealing of another file for the
\* reader under another key: a new sealing, which only the hash can tell
\* from the sealed one.
resealed ==
    /\ ~unsealing.project.encryptedData.flipped
    /\ ~unsealing.project.encryptedKey.flipped
    /\ unsealing.project.encryptedKey.wrappedFor = unsealing.encryptionKeys
    /\ unsealing.project.encryptedKey.key # SealedOriginal.encryptedKey.key
    /\ unsealing.project.encryptedData.key = unsealing.project.encryptedKey.key
    /\ unsealing.project.encryptedData.iv = unsealing.project.iv

C23_WrappedForAssignedReviewer ==
    (sealing.checked /\ sealing.saved # NoDoc) =>
        /\ sealing.saved.encryptedKey.wrappedFor \in Reviewers
        /\ sealing.saved.encryptedKey.wrappedFor = sealing.assigned


\* --------------------------------------------------------------- frames
\* C24: while a submission is stored, its owner and its sealed content
\* (fileHash, encryptedData, iv, encryptedKey) stay what they were at creation.
C24_ContentWriteOnce ==
    [][\A p \in ProjIds :
          (Stored(p) /\ projects'[p] # NoDoc) =>
              /\ projects'[p].studentId = projects[p].studentId
              /\ projects'[p].fileHash = projects[p].fileHash
              /\ projects'[p].encryptedData = projects[p].encryptedData
              /\ projects'[p].iv = projects[p].iv
              /\ projects'[p].encryptedKey = projects[p].encryptedKey]_vars

C24_Witness ==
    /\ statusIn(1, {"published"})
    /\ projects[1].evaluationId # NullId
    /\ projects[1].studentId = Submitter
    /\ projects[1].fileHash = CompleteBody.fileHash

\* C25: a stored Evaluation never changes; it can only disappear, and only
\* once the submission it belongs to has been deleted.
C25_EvaluationImmutable ==
    [][\A e \in EvalIds :
          evaluations[e] # NoDoc =>
              \/ evaluations'[e] = evaluations[e]
              \/ /\ evaluations'[e] = NoDoc
                 /\ projects'[evaluations[e].submissionId] = NoDoc]_vars

C25_Witness ==
    /\ evaluations[1] # NoDoc
    /\ evaluations[1].submissionId = 1
    /\ statusIn(1, {"published"})
    /\ projects[1].evaluationId = 1

\* C26: the browser saves a submission only when the form is complete and
\* hashing, encryption and key wrapping have all succeeded, and then with all
\* four sealed fields; the server stores no submission with one of them
\* missing.
C26_SealingAllOrNothing ==
    /\ (sealing.checked /\ sealing.saved # NoDoc) =>
           /\ sealing.throws = "none"
           /\ sealing.title # Empty /\ sealing.file # NoFile
           /\ sealing.user # NotLoggedIn
           /\ sealing.saved.fileHash = hashData(arrayBufferToBase64(sealing.file))
           /\ sealing.saved.encryptedData.data = sealing.file
           /\ sealing.saved.iv = sealing.saved.encryptedData.iv
           /\ sealing.saved.encryptedKey.key = sealing.saved.encryptedData.key
    /\ ( /\ sealing.checked
         /\ \/ sealing.throws # "none"
            \/ sealing.title = Empty \/ sealing.file = NoFile
            \/ sealing.user = NotLoggedIn )
           => sealing.saved = NoDoc
    /\ \A p \in ProjIds :
           Stored(p) =>
               /\ projects[p].fileHash # Empty
               /\ projects[p].encryptedData # Empty
               /\ projects[p].iv # Empty
               /\ projects[p].encryptedKey # Empty

C26_Witness ==
    /\ sealing.checked
    /\ sealing.throws = "wrapKey"
    /\ sealing.title # Empty /\ sealing.file # NoFile
    /\ sealing.user # NotLoggedIn
    /\ sealing.saved = NoDoc
    /\ resp = 400
    /\ ~Stored(1)


\* ------------------------------------------------------------ key custody
\* C27: nothing the client uploads to the server and nothing it enters in
\* the public key directory is the private half of a key pair.
C27_PrivateKeysStayLocal ==
    \A key \in published.toServer \cup published.toDirectory :
        key.half = "public"

C27_Witness ==
    /\ signingKeys[ChosenReviewer] = 1
    /\ published.toServer = {exportPublicKey(1, "encrypt"),
                             exportPublicKey(1, "sign")}
    /\ published.toDirectory = published.toServer


\* ----------------------------------------------------------- authentication
\* C28: a user with role admin comes into the users collection only by a
\* create-admin request that carries the administrator secret, never by a
\* register request.
C28_RegisterNeverMakesAdmin ==
    [][\A u \in AuthUsers :
          (users[u] = NoDoc /\ users'[u] # NoDoc /\ users'[u].role = "admin") =>
              \E body \in CreateAdminBodies(u) :
                  body.secretKey = ADMIN_SECRET /\ CreateAdmin(u, body)]_vars

\* C29: once logout has removed the session of a token, every request that
\* presents the token to a project route is answered 401.
C29_LoggedOutTokenRejected ==
    [][\A token \in Tokens :
          ( /\ token.signed
            /\ otpLog[token.jti].loggedOut
            /\ token \notin sessions
            /\ AuthenticatedRequest(token) ) => resp' = 401]_vars

\* C30: an OTP is answered with a session token at most once.
C30_OtpSingleUse ==
    \A o \in OtpIds : otpLog[o].tokens <= 1


====
